---- MODULE Spec2Model ----
(***************************************************************************)
(* transcribe-cli (src/transcribe-cli/src/main.rs): one invocation parses  *)
(* its command line, checks that the model and audio paths exist, loads    *)
(* the Whisper engine, transcribes the file and reports the outcome as a   *)
(* JSON envelope on stdout (success) or stderr (failure).                  *)
(*                                                                         *)
(* Strings are sequences of tokens: a token is one character ("a", "\n",   *)
(* a quote, a backslash, ...) or a literal chunk of a format string that   *)
(* holds no character JSON escapes.  Option<T> is a sequence of length 0   *)
(* (None) or 1 (Some).  stdout / stderr hold the lines the process handed  *)
(* to the stream; the io::Result of a stderr write or flush is recorded    *)
(* in wres / fres.  stdout is taken to be writable.                        *)
(***************************************************************************)
EXTENDS Integers, Sequences, FiniteSets, TLC

VARIABLES argv, fs, pc, args, engine, modelParams, inferParams, result,
          stdout, stderr, wres, fres, exitCode, log, prev

vars == <<argv, fs, pc, args, engine, modelParams, inferParams, result,
          stdout, stderr, wres, fres, exitCode, log, prev>>

\* ---------------------------------------------------------------- bounds
MaxPathLen == 1
MaxTextLen == 1

SeqsUpTo(S, n) == UNION {[1..k -> S] : k \in 0..n}

None == <<>>
Some(x) == <<x>>

\* an invalid UTF-8 byte in an OS path, and what Path::display shows for it
BadByte == "<ff>"
Replacement == "<U+FFFD>"

PathChars == {"m", BadByte}
Chars == {"a", "\"", "\\", "\n"}
Paths == SeqsUpTo(PathChars, MaxPathLen) \ {<<>>}
Texts == SeqsUpTo(Chars, MaxTextLen)
Msgs == SeqsUpTo(Chars, MaxTextLen) \ {<<>>}
Langs == {<<"e", "n">>}

\* ------------------------------------------------------- pure functions
\* Path::display(): lossy rendering of the path
Display(p) == [i \in 1..Len(p) |-> IF p[i] = BadByte THEN Replacement ELSE p[i]]

ModelNotFoundMut(p) == <<"Audio file not found: ">> \o Display(p)
ModelNotFound(p) == <<"Model file not found: ">> \o Display(p)

AudioNotFoundMut(p) == <<"File not found: ">> \o Display(p)
AudioNotFound(p) == <<"Audio file not found: ">> \o Display(p)

\* Box<dyn Error>::to_string(): the Display of the boxed error, i.e. the
\* message itself
ErrToStringMut(e) == <<"Error: ">> \o e
ErrToString(e) == e

\* serde_json string escaping of one character
EscapeCharMut(c) == <<c>>
EscapeChar(c) ==
    CASE c = "\"" -> <<"\\", "\"">>
      [] c = "\\" -> <<"\\", "\\">>
      [] c = "\n" -> <<"\\", "n">>
      [] OTHER -> <<c>>

RECURSIVE Escape(_)
Escape(s) == IF s = <<>> THEN <<>> ELSE EscapeChar(Head(s)) \o Escape(Tail(s))

\* serde_json::to_string of a struct with one String field
ToJson(key, val) ==
    <<"{", "\"", key, "\"", ":", "\"">> \o Escape(val) \o <<"\"", "}">>

SuccessOutput(text) == ToJson("text", text)
ErrorOutput(error) == ToJson("error", error)

\* what a JSON parser reads back from an escaped string body
UnescapeChar(c) == IF c = "n" THEN "\n" ELSE c

RECURSIVE Unescape(_)
Unescape(s) ==
    IF s = <<>> THEN <<>>
    ELSE IF Head(s) = "\\"
         THEN IF Len(s) >= 2
              THEN <<UnescapeChar(s[2])>> \o Unescape(SubSeq(s, 3, Len(s)))
              ELSE <<>>
         ELSE <<Head(s)>> \o Unescape(Tail(s))

\* a JSON string body: no raw quote, no raw control character, and every
\* backslash starts a known escape
RECURSIVE ValidBody(_)
ValidBody(s) ==
    IF s = <<>> THEN TRUE
    ELSE IF Head(s) = "\\"
         THEN Len(s) >= 2 /\ s[2] \in {"\"", "\\", "n"}
              /\ ValidBody(SubSeq(s, 3, Len(s)))
         ELSE Head(s) \notin {"\"", "\n"} /\ ValidBody(Tail(s))

IsEnvelope(line) ==
    /\ Len(line) >= 8
    /\ SubSeq(line, 1, 2) = <<"{", "\"">>
    /\ SubSeq(line, 4, 6) = <<"\"", ":", "\"">>
    /\ SubSeq(line, Len(line) - 1, Len(line)) = <<"\"", "}">>
    /\ ValidBody(SubSeq(line, 7, Len(line) - 2))

\* the single key and its string value of a one-key JSON object
ParseKey(line) == line[3]
ParseValue(line) == Unescape(SubSeq(line, 7, Len(line) - 2))

\* ---------------------------------------------------------------- state
NoExit == -1
SuccessExitCode == 0
FailureExitCodeMut == SuccessExitCode
FailureExitCode == 1
UsageExitCode == 2

\* clap's report of an argument the Args struct does not declare
UsageError == <<"error: unexpected argument '--language' found">>

\* Args::parse(): the struct declares --audio and --model only
ParseOk(av) == av.language = None
ParseArgs(av) == [audio |-> av.audio, model |-> av.model]

ExistsMut(p) == p \in fs \/ prev # None
Exists(p) == p \in fs

WhisperModelParams == [use_gpu |-> TRUE]

\* WhisperInferenceParams::default(): no language, the engine auto-detects
WhisperInferenceParamsDefaultMut == [language |-> Some(<<"e", "n">>)]
WhisperInferenceParamsDefault == [language |-> None]

Ok(v) == [ok |-> TRUE, val |-> v]
Err(e) == [ok |-> FALSE, val |-> e]

Event(op, ok) == [op |-> op, ok |-> ok, eng |-> engine]

Init ==
    /\ argv \in [audio : Paths, model : Paths, language : {None} \cup {Some(l) : l \in Langs}]
    /\ fs \in SUBSET {argv.audio, argv.model}
    /\ pc = "parse"
    /\ args = None
    /\ engine = "NotConstructed"
    /\ modelParams = None
    /\ inferParams = None
    /\ result = None
    /\ stdout = <<>>
    /\ stderr = <<>>
    /\ wres = "none"
    /\ fres = "none"
    /\ exitCode = NoExit
    /\ log = <<>>
    /\ prev = None

\* ------------------------------------------------------------- main, run
\* main: Args::parse() accepts the command line
Parse ==
    /\ pc = "parse"
    /\ ParseOk(argv)
    /\ args' = Some(ParseArgs(argv))
    /\ pc' = "check_model"
    /\ UNCHANGED <<argv, fs, engine, modelParams, inferParams, result, stdout,
                   stderr, wres, fres, exitCode, log, prev>>

\* main: Args::parse() rejects the command line; clap reports the usage
\* error and exits the process itself, run() is never entered
ParseReject ==
    /\ pc = "parse"
    /\ ~ParseOk(argv)
    /\ stderr' = Append(stderr, UsageError)
    /\ exitCode' = UsageExitCode
    /\ pc' = "exited"
    /\ UNCHANGED <<argv, fs, args, engine, modelParams, inferParams, result,
                   stdout, wres, fres, log, prev>>

\* where run() goes after a path check: on with the pipeline, or out with
\* the error (return Err(...))
AfterCheckMut(ok, next) == next
AfterCheck(ok, next) == IF ok THEN next ELSE "write_err"

\* run: if !args.model.exists() { return Err(...) }
CheckModel ==
    /\ pc = "check_model"
    /\ LET ok == Exists(args[1].model) IN
        /\ log' = Append(log, Event("check_model", ok))
        /\ result' = IF ok THEN result ELSE Some(Err(ModelNotFound(args[1].model)))
        /\ pc' = AfterCheck(ok, "check_audio")
    /\ UNCHANGED <<argv, fs, args, engine, modelParams, inferParams, stdout,
                   stderr, wres, fres, exitCode, prev>>

\* run: if !args.audio.exists() { return Err(...) }
CheckAudio ==
    /\ pc = "check_audio"
    /\ LET ok == Exists(args[1].audio) IN
        /\ log' = Append(log, Event("check_audio", ok))
        /\ result' = IF ok THEN result ELSE Some(Err(AudioNotFound(args[1].audio)))
        /\ pc' = AfterCheck(ok, "new_engine")
    /\ UNCHANGED <<argv, fs, args, engine, modelParams, inferParams, stdout,
                   stderr, wres, fres, exitCode, prev>>

\* run: let mut engine = WhisperEngine::new();
NewEngine ==
    /\ pc = "new_engine"
    /\ engine' = "Uninitialized"
    /\ pc' = "load"
    /\ UNCHANGED <<argv, fs, args, modelParams, inferParams, result, stdout,
                   stderr, wres, fres, exitCode, log, prev>>

\* where run() goes after load_model_with_params(...)?
AfterLoadMut(ok) == "transcribe"
AfterLoad(ok) == IF ok THEN "transcribe" ELSE "write_err"

\* run: engine.load_model_with_params(&args.model, WhisperModelParams { use_gpu: true })?
\* the engine answers Ok or an error with a message of its own
LoadModel ==
    /\ pc = "load"
    /\ \E r \in {Ok(<<>>)} \cup {Err(m) : m \in Msgs} :
        /\ log' = Append(log, Event("load_model", r.ok))
        /\ modelParams' = Some(WhisperModelParams)
        /\ engine' = IF r.ok THEN "Ready" ELSE "Failed"
        /\ result' = IF r.ok THEN result ELSE Some(r)
        /\ pc' = AfterLoad(r.ok)
    /\ UNCHANGED <<argv, fs, args, inferParams, stdout, stderr, wres, fres,
                   exitCode, prev>>

\* run: engine.transcribe_file(&args.audio, Some(WhisperInferenceParams::default()))?
\*      Ok(result.text)
Transcribe ==
    /\ pc = "transcribe"
    /\ \E r \in {Ok(t) : t \in Texts} \cup {Err(m) : m \in Msgs} :
        /\ log' = Append(log, Event("transcribe", r.ok))
        /\ inferParams' = Some(WhisperInferenceParamsDefault)
        /\ result' = Some(r)
        /\ pc' = IF r.ok THEN "print" ELSE "write_err"
    /\ UNCHANGED <<argv, fs, args, engine, modelParams, stdout, stderr, wres,
                   fres, exitCode, prev>>

\* main, Ok(text) arm: println!(to_string(SuccessOutput { text })), then main
\* returns and the process ends with status 0
PrintSuccess ==
    /\ pc = "print"
    /\ stdout' = Append(stdout, SuccessOutput(result[1].val))
    /\ log' = Append(log, Event("stdout_write", TRUE))
    /\ exitCode' = SuccessExitCode
    /\ pc' = "exited"
    /\ UNCHANGED <<argv, fs, args, engine, modelParams, inferParams, result,
                   stderr, wres, fres, prev>>

\* let _ = ...: the io::Result is dropped, the next statement runs
AfterWriteMut(r) == IF r = "err" THEN "exit" ELSE "flush_err"
AfterWrite(r) == "flush_err"

\* main, Err(e) arm: let _ = writeln!(stderr(), to_string(ErrorOutput { error: e.to_string() }))
WriteError ==
    /\ pc = "write_err"
    /\ \E r \in {"ok", "err"} :
        /\ wres' = r
        /\ stderr' = Append(stderr, ErrorOutput(ErrToString(result[1].val)))
        /\ log' = Append(log, Event("stderr_write", r = "ok"))
        /\ pc' = AfterWrite(r)
    /\ UNCHANGED <<argv, fs, args, engine, modelParams, inferParams, result,
                   stdout, fres, exitCode, prev>>

\* main, Err(e) arm: let _ = std::io::stderr().flush();
FlushError ==
    /\ pc = "flush_err"
    /\ \E r \in {"ok", "err"} :
        /\ fres' = r
        /\ log' = Append(log, Event("stderr_flush", r = "ok"))
    /\ pc' = "exit"
    /\ UNCHANGED <<argv, fs, args, engine, modelParams, inferParams, result,
                   stdout, stderr, wres, exitCode, prev>>

\* main, Err(e) arm: process::exit(1)
Exit ==
    /\ pc = "exit"
    /\ exitCode' = FailureExitCode
    /\ log' = Append(log, Event("exit", TRUE))
    /\ pc' = "exited"
    /\ UNCHANGED <<argv, fs, args, engine, modelParams, inferParams, result,
                   stdout, stderr, wres, fres, prev>>

\* the same command line is run a second time: a new process starts in main
\* with nothing of the first but the file system it left; what the first
\* run produced is kept in prev for comparison
Rerun ==
    /\ pc = "exited"
    /\ prev = None
    /\ prev' = Some([stdout |-> stdout, stderr |-> stderr, exitCode |-> exitCode,
                     log |-> [i \in 1..Len(log) |-> log[i].op], fs |-> fs])
    /\ pc' = "parse"
    /\ args' = None
    /\ engine' = "NotConstructed"
    /\ modelParams' = None
    /\ inferParams' = None
    /\ result' = None
    /\ stdout' = <<>>
    /\ stderr' = <<>>
    /\ wres' = "none"
    /\ fres' = "none"
    /\ exitCode' = NoExit
    /\ log' = <<>>
    /\ UNCHANGED <<argv, fs>>

Next ==
    \/ Parse
    \/ ParseReject
    \/ CheckModel
    \/ CheckAudio
    \/ NewEngine
    \/ LoadModel
    \/ Transcribe
    \/ PrintSuccess
    \/ WriteError
    \/ FlushError
    \/ Exit
    \/ Rerun

Spec == Init /\ [][Next]_vars

\* ------------------------------------------------------------ properties
\* a run of the pipeline has ended: the command line parsed, run() was
\* entered and the process has exited
Finished == pc = "exited" /\ args # None

Ops == [i \in 1..Len(log) |-> log[i].op]
Called(op) == \E i \in 1..Len(log) : log[i].op = op
Failed(op) == \E i \in 1..Len(log) : log[i].op = op /\ ~log[i].ok
Succeeded(op) == \E i \in 1..Len(log) : log[i].op = op /\ log[i].ok
Count(op) == Cardinality({i \in 1..Len(log) : log[i].op = op})

\* the stream holds exactly one line, a one-key JSON object key -> val
OneEnvelope(stream, key, val) ==
    /\ Len(stream) = 1
    /\ IsEnvelope(stream[1])
    /\ ParseKey(stream[1]) = key
    /\ ParseValue(stream[1]) = val

\* C1: a run whose --model path does not exist ends with the one line
\* {"error": "Model file not found: <model path>"} on stderr, nothing on
\* stdout and exit code 1, whether or not the --audio path exists.
C1_ModelMissing ==
    (Finished /\ argv.model \notin fs) =>
        /\ OneEnvelope(stderr, "error",
                       <<"Model file not found: ">> \o Display(argv.model))
        /\ stdout = <<>>
        /\ exitCode = 1
        /\ ~Called("check_audio")

C1_Witness ==
    /\ Finished
    /\ argv.model \notin fs
    /\ argv.audio \notin fs
    /\ argv.audio # argv.model
    /\ BadByte \in {argv.model[i] : i \in 1..Len(argv.model)}

\* C2: a run whose --model path exists and whose --audio path does not ends
\* with {"error": "Audio file not found: <audio path>"} on stderr, nothing
\* on stdout, exit code 1, and the engine was never asked to load or
\* transcribe.
C2_AudioMissing ==
    (Finished /\ argv.model \in fs /\ argv.audio \notin fs) =>
        /\ OneEnvelope(stderr, "error",
                       <<"Audio file not found: ">> \o Display(argv.audio))
        /\ stdout = <<>>
        /\ exitCode = 1
        /\ ~Called("load_model")
        /\ ~Called("transcribe")
        /\ modelParams = None
        /\ inferParams = None
        /\ engine = "NotConstructed"

C2_Witness ==
    /\ Finished
    /\ argv.model \in fs
    /\ argv.audio \notin fs
    /\ stderr # <<>>

\* C3: when both paths exist and load_model and transcribe succeed with
\* text T, the run ends with exactly one line {"text": T} on stdout, which
\* parses back to T, nothing on stderr and exit code 0.
C3_Success ==
    (Finished /\ Succeeded("load_model") /\ Succeeded("transcribe")) =>
        /\ {argv.model, argv.audio} \subseteq fs
        /\ result # None /\ result[1].ok
        /\ OneEnvelope(stdout, "text", result[1].val)
        /\ stderr = <<>>
        /\ exitCode = 0

C3_Witness ==
    /\ Finished
    /\ Succeeded("transcribe")
    /\ result[1].val = <<"\n">>
    /\ stdout # <<>>

C3_WitnessEmptyText ==
    /\ Finished
    /\ Succeeded("transcribe")
    /\ result[1].val = <<>>
    /\ stdout # <<>>

\* C4: a finished run has emitted exactly one envelope: a text envelope on
\* stdout with exit code 0, or an error envelope on stderr with exit code 1,
\* never both and never neither.
SuccessEnvelope ==
    /\ Len(stdout) = 1 /\ IsEnvelope(stdout[1]) /\ ParseKey(stdout[1]) = "text"
    /\ stderr = <<>>
FailureEnvelope ==
    /\ Len(stderr) = 1 /\ IsEnvelope(stderr[1]) /\ ParseKey(stderr[1]) = "error"
    /\ stdout = <<>>

EngineFailed == Failed("load_model") \/ Failed("transcribe")

C5_EngineMessageVerbatim ==
    (Finished /\ EngineFailed) =>
        /\ result # None /\ ~result[1].ok /\ result[1].val \in Msgs
        /\ OneEnvelope(stderr, "error", result[1].val)
        /\ exitCode = 1

C5_Witness ==
    /\ Finished
    /\ Failed("load_model")
    /\ result[1].val = <<"\"">>
    /\ stderr # <<>>

C5_WitnessTranscribe ==
    /\ Finished
    /\ Failed("transcribe")
    /\ result[1].val = <<"\\">>
    /\ stderr # <<>>

\* C6: fail-fast: once a stage (model check, audio check, load_model,
\* transcribe) has failed, no later stage runs; all that follows is the
\* write of the error envelope, the flush and the exit.
Stages == {"check_model", "check_audio", "load_model", "transcribe"}
ErrorTail == <<"stderr_write", "stderr_flush", "exit">>

C6_FailFast ==
    \A i \in 1..Len(log) :
        (log[i].op \in Stages /\ ~log[i].ok) =>
            /\ Len(log) - i <= Len(ErrorTail)
            /\ SubSeq(Ops, i + 1, Len(log)) = SubSeq(ErrorTail, 1, Len(log) - i)
            /\ pc \in {"write_err", "flush_err", "exit", "exited"}

C6_Witness ==
    /\ Finished
    /\ Failed("check_audio")
    /\ Len(log) = 5

\* C7 as stated: a --language flag on the command line is taken by the CLI
\* and reaches transcribe verbatim in the inference parameters.
C7_Original ==
    (pc = "exited" /\ argv.language # None) =>
        /\ args # None
        /\ Called("transcribe") => inferParams = Some([language |-> argv.language])

\* C7 (amended): the CLI takes no --language flag: a command line carrying
\* one is turned down by the argument parser before the pipeline starts, so
\* transcribe always receives the default (auto-detect) inference
\* parameters; load_model always receives use_gpu = true.
C7_Amended ==
    /\ Called("load_model") <=> modelParams # None
    /\ Called("transcribe") <=> inferParams # None
    /\ modelParams # None => modelParams[1].use_gpu = TRUE
    /\ inferParams # None => inferParams[1].language = None
    /\ argv.language # None =>
           /\ args = None /\ log = <<>>
           /\ pc = "exited" => (exitCode = 2 /\ stdout = <<>>)

C7_Witness ==
    /\ Finished
    /\ Called("transcribe")
    /\ modelParams # None
    /\ inferParams # None

C7_WitnessFlag ==
    /\ pc = "exited"
    /\ argv.language # None

\* C8: transcribe is called only on a Ready engine, after a successful
\* load_model of the same run; load_model and transcribe are each called at
\* most once per run.
C8_EngineStateMachine ==
    /\ engine \in {"NotConstructed", "Uninitialized", "Ready", "Failed"}
    /\ Count("load_model") <= 1
    /\ Count("transcribe") <= 1
    /\ \A i \in 1..Len(log) :
          /\ log[i].op = "transcribe" =>
                /\ log[i].eng = "Ready"
                /\ \E j \in 1..(i - 1) : log[j].op = "load_model" /\ log[j].ok
          /\ log[i].op = "load_model" => log[i].eng = "Uninitialized"
    /\ engine = "Ready" <=> Succeeded("load_model")
    /\ engine = "Failed" <=> Failed("load_model")

C8_Witness ==
    /\ Called("transcribe")
    /\ engine = "Ready"

C8_WitnessFailed ==
    /\ Finished
    /\ engine = "Failed"

\* C9: on a failing run the error line is written to stderr, then stderr is
\* flushed, then the process exits with 1; it never exits with 1 before the
\* flush, and a failed write or flush leaves the exit code at 1.
C9_FlushBeforeExit ==
    /\ Called("exit") =>
          /\ Len(log) >= 3
          /\ SubSeq(Ops, Len(log) - 2, Len(log)) = ErrorTail
          /\ wres # "none" /\ fres # "none"
    /\ exitCode = 1 => Called("stderr_flush")
    /\ Called("stderr_flush") => Called("stderr_write")
    /\ (Finished /\ result # None /\ ~result[1].ok) =>
          /\ exitCode = 1
          /\ Called("exit")

C9_Witness ==
    /\ Finished
    /\ wres = "err"
    /\ fres = "err"
    /\ exitCode = 1

\* C10: a second run with the same arguments and the same file system,
\* after a run that failed validation, gives the same bytes on stderr,
\* nothing on stdout and exit code 1; the first run left the file system
\* as it found it.
ValidationFailed(ops) ==
    /\ \E i \in 1..Len(ops) : ops[i] = "stderr_write"
    /\ \A i \in 1..Len(ops) : ops[i] # "load_model"

====
